---- MODULE Spec2Model ----
(***************************************************************************)
(* Model of oftests/l2switch_xdr.py: the XDR framework classes (XDREnum,   *)
(* XDRStruct, XDRUnionMember) and the three generated records              *)
(* endpoint_key, endpoint_value and endpoint_stats, together with the      *)
(* part of Python 2.7's xdrlib / struct they call.                         *)
(*                                                                         *)
(* Python values are records carrying their type name in the field "type". *)
(* A Python integer n is kept as the pair (hi, lo) with n = hi*2^16 + lo   *)
(* and 0 <= lo < 2^16, so that the whole unsigned 32-bit range is          *)
(* representable; a byte string is a sequence of numbers in 0..255.        *)
(***************************************************************************)
EXTENDS Integers, Sequences, FiniteSets, TLC

VARIABLES
    arg,        \* the value the caller holds and passes to the next call
    other,      \* right-hand operand of a comparison
    origin,     \* argument of the call whose result `arg` is (or ctor args)
    op,         \* name of the last operation
    cls,        \* class the last operation was invoked on
    ret,        \* outcome of the last operation: a return value or a raise
    packer,     \* xdrlib.Packer allocated by the last pack call
    unpacker,   \* xdrlib.Unpacker allocated by the last unpack call
    store,      \* values held by independent callers (call-history spec)
    memo        \* per held value: the first call made on it and its outcome

vars == <<arg, other, origin, op, cls, ret, packer, unpacker, store, memo>>

----------------------------------------------------------------------------
(* Bounds of the explored input space *)

MaxWords == 3       \* whole 4-byte words in a received buffer
MaxTrail == 3       \* extra bytes after the whole words of a received buffer
NumSlots == 2       \* values held at once in the call-history specification

----------------------------------------------------------------------------
(* Python values *)

None == [type |-> "NoneType"]

PyInt(hi, lo) == [type |-> "int", hi |-> hi, lo |-> lo]

PyBool(b) == [type |-> "bool", v |-> b]

Str(b) == [type |-> "str", b |-> b]

Tuple(items) == [type |-> "tuple", items |-> items]

Return(v) == [kind |-> "return", val |-> v]

Raise(e) == [kind |-> "raise", exc |-> e]

NoCall == [kind |-> "none"]

NoExc == "none"

NoCursor == [buf |-> <<>>, pos |-> 0, exc |-> NoExc]

IsUInt32(x) == x.type = "int" /\ x.hi \in 0..65535 /\ x.lo \in 0..65535

IsInt32(x) == x.type = "int" /\ x.hi \in (0 - 32768)..32767 /\ x.lo \in 0..65535

----------------------------------------------------------------------------
(* struct.pack / struct.unpack for the formats xdrlib uses *)

\* struct.pack('>L', x): four bytes, most significant first
struct_pack_L(x) ==
    <<x.hi \div 256, x.hi % 256, x.lo \div 256, x.lo % 256>>

\* struct.pack('>l', x): two's complement, most significant byte first
struct_pack_l(x) ==
    <<(x.hi % 65536) \div 256, (x.hi % 65536) % 256, x.lo \div 256, x.lo % 256>>

\* struct.unpack('>L', data)[0]
struct_unpack_L(data) ==
    PyInt(data[1] * 256 + data[2], data[3] * 256 + data[4])

\* struct.unpack('>l', data)[0]
struct_unpack_l(data) ==
    LET h == data[1] * 256 + data[2]
    IN  PyInt(IF h >= 32768 THEN h - 65536 ELSE h, data[3] * 256 + data[4])

----------------------------------------------------------------------------
(* xdrlib.Packer: an append-only byte buffer.  The field exc carries an    *)
(* exception raised by an earlier statement of the same call, which skips  *)
(* the statements after it.                                                *)

Packer == [buf |-> <<>>, pos |-> 0, exc |-> NoExc]

pack_uint(p, x) ==
    IF p.exc # NoExc THEN p
    ELSE IF IsUInt32(x) THEN [p EXCEPT !.buf = @ \o struct_pack_L(x)]
    ELSE [p EXCEPT !.exc = "struct.error"]

XDREnum___init__(name, value) == [type |-> "XDREnum", name |-> name, value |-> value]

XDREnum___int__(self) == self.value

\* struct's conversion of an argument to an integer: an int is taken as it
\* is, an object that defines __int__ (an enum member) is asked for it
get_pylong(x) == IF x.type = "XDREnum" THEN XDREnum___int__(x) ELSE x

pack_int(p, x) ==
    IF p.exc # NoExc THEN p
    ELSE IF IsInt32(get_pylong(x))
         THEN [p EXCEPT !.buf = @ \o struct_pack_l(get_pylong(x))]
    ELSE [p EXCEPT !.exc = "struct.error"]

get_buffer(p) == Str(p.buf)

(* xdrlib.Unpacker: a buffer and a read position *)

Unpacker(data) == [buf |-> data.b, pos |-> 0, exc |-> NoExc]

\* Python slice buf[i:j] for 0 <= i <= j
Slice(buf, i, j) ==
    IF i >= Len(buf) THEN <<>>
    ELSE SubSeq(buf, i + 1, IF j < Len(buf) THEN j ELSE Len(buf))

\* i = pos; pos = j = i+4; data = buf[i:j]; if len(data) < 4: raise EOFError
unpack_uint(u) ==
    IF u.exc # NoExc THEN [u |-> u, x |-> None]
    ELSE LET data == Slice(u.buf, u.pos, u.pos + 4)
             nu   == [u EXCEPT !.pos = @ + 4]
         IN  IF Len(data) < 4
             THEN [u |-> [nu EXCEPT !.exc = "EOFError"], x |-> None]
             ELSE [u |-> nu, x |-> struct_unpack_L(data)]

unpack_int(u) ==
    IF u.exc # NoExc THEN [u |-> u, x |-> None]
    ELSE LET data == Slice(u.buf, u.pos, u.pos + 4)
             nu   == [u EXCEPT !.pos = @ + 4]
         IN  IF Len(data) < 4
             THEN [u |-> [nu EXCEPT !.exc = "EOFError"], x |-> None]
             ELSE [u |-> nu, x |-> struct_unpack_l(data)]

----------------------------------------------------------------------------
(* The generated record classes *)

StructTypes == {"endpoint_key", "endpoint_value", "endpoint_stats"}

Fields(T) ==
    CASE T = "endpoint_key"   -> <<"vlan", "mac_hi", "mac_lo">>
      [] T = "endpoint_value" -> <<"port">>
      [] T = "endpoint_stats" -> <<"packets", "bytes">>

endpoint_key___init__(vlan, mac_hi, mac_lo) ==
    [type |-> "endpoint_key", vlan |-> vlan, mac_hi |-> mac_hi, mac_lo |-> mac_lo]

endpoint_value___init__(port) ==
    [type |-> "endpoint_value", port |-> port]

endpoint_stats___init__(packets, bytes) ==
    [type |-> "endpoint_stats", packets |-> packets, bytes |-> bytes]

\* variant: mac_lo written before mac_hi
endpoint_key_pack_into_swapped(p, obj) ==
    pack_uint(pack_uint(pack_uint(p, obj.vlan), obj.mac_lo), obj.mac_hi)

endpoint_key_pack_into(p, obj) ==
    pack_uint(pack_uint(pack_uint(p, obj.vlan), obj.mac_hi), obj.mac_lo)

endpoint_value_pack_into(p, obj) ==
    pack_uint(p, obj.port)

endpoint_stats_pack_into(p, obj) ==
    pack_uint(pack_uint(p, obj.packets), obj.bytes)

\* the statement  obj.<name> = unpacker.unpack_uint()  inside unpack_from
SetField(fr, name) ==
    LET r == unpack_uint(fr.u)
    IN  IF r.u.exc # NoExc
        THEN [u |-> r.u, obj |-> fr.obj]
        ELSE [u |-> r.u, obj |-> [fr.obj EXCEPT ![name] = r.x]]

\* variant: EOFError is swallowed and the object built so far is returned
ReturnObj_partial(fr) ==
    [u |-> fr.u, ret |-> Return(fr.obj)]

\* return obj: reached only when no statement raised
ReturnObj(fr) ==
    [u |-> fr.u, ret |-> IF fr.u.exc # NoExc THEN Raise(fr.u.exc) ELSE Return(fr.obj)]

\* variant: the second word read is stored in mac_lo, the third in mac_hi
endpoint_key_unpack_from_swapped(u) ==
    LET f0 == [u |-> u, obj |-> endpoint_key___init__(None, None, None)]
        f1 == SetField(f0, "vlan")
        f2 == SetField(f1, "mac_lo")
        f3 == SetField(f2, "mac_hi")
    IN  ReturnObj(f3)

endpoint_key_unpack_from(u) ==
    LET f0 == [u |-> u, obj |-> endpoint_key___init__(None, None, None)]
        f1 == SetField(f0, "vlan")
        f2 == SetField(f1, "mac_hi")
        f3 == SetField(f2, "mac_lo")
    IN  ReturnObj(f3)

\* variant: port read with unpack_int (signed) instead of unpack_uint
endpoint_value_unpack_from_signed(u) ==
    LET r == unpack_int(u)
    IN  [u |-> r.u,
         ret |-> IF r.u.exc # NoExc THEN Raise(r.u.exc)
                 ELSE Return(endpoint_value___init__(r.x))]

endpoint_value_unpack_from(u) ==
    LET f0 == [u |-> u, obj |-> endpoint_value___init__(None)]
        f1 == SetField(f0, "port")
    IN  ReturnObj(f1)

\* variant: the assignment of obj.bytes is missing
endpoint_stats_unpack_from_short(u) ==
    LET f0 == [u |-> u, obj |-> endpoint_stats___init__(None, None)]
        f1 == SetField(f0, "packets")
    IN  ReturnObj(f1)

endpoint_stats_unpack_from(u) ==
    LET f0 == [u |-> u, obj |-> endpoint_stats___init__(None, None)]
        f1 == SetField(f0, "packets")
        f2 == SetField(f1, "bytes")
    IN  ReturnObj(f2)

\* dispatch of self.pack_into / cls.unpack_from on the class
pack_into(T, p, obj) ==
    CASE T = "endpoint_key"   -> endpoint_key_pack_into(p, obj)
      [] T = "endpoint_value" -> endpoint_value_pack_into(p, obj)
      [] T = "endpoint_stats" -> endpoint_stats_pack_into(p, obj)

unpack_from(T, u) ==
    CASE T = "endpoint_key"   -> endpoint_key_unpack_from(u)
      [] T = "endpoint_value" -> endpoint_value_unpack_from(u)
      [] T = "endpoint_stats" -> endpoint_stats_unpack_from(u)

----------------------------------------------------------------------------
(* XDRStruct *)

\* variant: one module-level Packer is shared by all calls instead of a new
\* one being allocated in each
XDRStruct_pack_shared(self) ==
    LET p == pack_into(self.type, [packer EXCEPT !.exc = NoExc], self)
    IN  [packer |-> p,
         ret |-> IF p.exc # NoExc THEN Raise(p.exc) ELSE Return(get_buffer(p))]

\* packer = xdrlib.Packer(); self.pack_into(packer, self); return packer.get_buffer()
XDRStruct_pack(self) ==
    LET p == pack_into(self.type, Packer, self)
    IN  [packer |-> p,
         ret |-> IF p.exc # NoExc THEN Raise(p.exc) ELSE Return(get_buffer(p))]

\* Unpacker.done(): raises when unread bytes remain
done(u) ==
    IF u.exc # NoExc THEN u
    ELSE IF u.pos < Len(u.buf) THEN [u EXCEPT !.exc = "xdrlib.Error"]
    ELSE u

\* variant: unpack insists, with done(), that the whole input was consumed
XDRStruct_unpack_strict(T, data) ==
    LET r  == unpack_from(T, Unpacker(data))
        u2 == done(r.u)
    IN  [u |-> u2, ret |-> IF u2.exc # NoExc THEN Raise(u2.exc) ELSE r.ret]

\* return cls.unpack_from(xdrlib.Unpacker(data))
XDRStruct_unpack(T, data) ==
    unpack_from(T, Unpacker(data))

----------------------------------------------------------------------------
(* Record equality.  A comparison method is a sequence of statements        *)
(*     if <test>: return False                                             *)
(* followed by return True; Pending is the outcome of a statement that did  *)
(* not return.  != on field values is Python's comparison of ints and None: *)
(* they differ unless they are the same value.  Reading an attribute the    *)
(* object does not have raises AttributeError.                              *)

Pending == [kind |-> "pending"]

\* if type(self) != type(other): return False
TypeTest(self, o) ==
    IF self.type # o.type THEN Return(PyBool(FALSE)) ELSE Pending

\* if self.<name> != other.<name>: return False
FieldTest(acc, self, o, name) ==
    IF acc # Pending THEN acc
    ELSE IF name \notin DOMAIN o THEN Raise("AttributeError")
    ELSE IF self[name] # o[name] THEN Return(PyBool(FALSE))
    ELSE Pending

\* return True
ReturnTrue(acc) == IF acc # Pending THEN acc ELSE Return(PyBool(TRUE))

\* variant: the type test is missing
endpoint_key___eq___untyped(self, o) ==
    LET s1 == FieldTest(Pending, self, o, "vlan")
        s2 == FieldTest(s1, self, o, "mac_hi")
        s3 == FieldTest(s2, self, o, "mac_lo")
    IN  ReturnTrue(s3)

endpoint_key___eq__(self, o) ==
    LET s0 == TypeTest(self, o)
        s1 == FieldTest(s0, self, o, "vlan")
        s2 == FieldTest(s1, self, o, "mac_hi")
        s3 == FieldTest(s2, self, o, "mac_lo")
    IN  ReturnTrue(s3)

endpoint_value___eq__(self, o) ==
    LET s0 == TypeTest(self, o)
        s1 == FieldTest(s0, self, o, "port")
    IN  ReturnTrue(s1)

endpoint_stats___eq__(self, o) ==
    LET s0 == TypeTest(self, o)
        s1 == FieldTest(s0, self, o, "packets")
        s2 == FieldTest(s1, self, o, "bytes")
    IN  ReturnTrue(s2)

\* self == other on a record: dispatch on type(self)
XDRStruct___eq__(self, o) ==
    CASE self.type = "endpoint_key"   -> endpoint_key___eq__(self, o)
      [] self.type = "endpoint_value" -> endpoint_value___eq__(self, o)
      [] self.type = "endpoint_stats" -> endpoint_stats___eq__(self, o)

\* return not self == other
XDRStruct___ne__(self, o) ==
    LET e == XDRStruct___eq__(self, o)
    IN  IF e.kind = "return" THEN Return(PyBool(~ e.val.v)) ELSE e

----------------------------------------------------------------------------
(* XDRUnionMember *)

MemberTypes == {"member_a", "member_b"}

XDRUnionMember___init__(T, value) == [type |-> T, value |-> value]

\* a == b for payload values: ints and None compare by value; a record on
\* either side answers through its own __eq__
PyEq(a, b) ==
    IF a.type \in StructTypes THEN XDRStruct___eq__(a, b).val.v
    ELSE IF b.type \in StructTypes THEN XDRStruct___eq__(b, a).val.v
    ELSE a = b

\* variant: the type test is missing
XDRUnionMember___eq___untyped(self, o) ==
    IF "value" \notin DOMAIN o THEN Raise("AttributeError")
    ELSE Return(PyBool(PyEq(self.value, o.value)))

\* return type(self) == type(other) and self.value == other.value
XDRUnionMember___eq__(self, o) ==
    IF self.type # o.type THEN Return(PyBool(FALSE))
    ELSE IF "value" \notin DOMAIN o THEN Raise("AttributeError")
    ELSE Return(PyBool(PyEq(self.value, o.value)))

\* return not self == other
XDRUnionMember___ne__(self, o) ==
    LET e == XDRUnionMember___eq__(self, o)
    IN  IF e.kind = "return" THEN Return(PyBool(~ e.val.v)) ELSE e

----------------------------------------------------------------------------
(* Inputs *)

\* 0, 100, 0x0A0B0C0D, 0x0E0F1011 and 2^32-1
SampleVals ==
    {PyInt(0, 0), PyInt(0, 100), PyInt(2571, 3085), PyInt(3599, 4113),
     PyInt(65535, 65535)}

\* constructor arguments: a value, or None for an omitted argument
CtorArgs == SampleVals \cup {None}

SampleBytes == {0, 255}

SampleWords ==
    {<<0, 0, 0, 0>>, <<255, 255, 255, 255>>, <<0, 0, 0, 255>>,
     <<0, 0, 255, 0>>, <<0, 255, 0, 0>>, <<255, 0, 0, 0>>,
     <<128, 0, 0, 0>>, <<127, 255, 255, 255>>}

RECURSIVE Flatten(_)
Flatten(ws) == IF ws = <<>> THEN <<>> ELSE Head(ws) \o Flatten(Tail(ws))

WordSeqs == UNION {[1..n -> SampleWords] : n \in 0..MaxWords}

Trails == UNION {[1..n -> SampleBytes] : n \in 0..MaxTrail}

Buffers == {Flatten(ws) \o t : ws \in WordSeqs, t \in Trails}

\* cls(*a) for a tuple a of as many arguments as the class has fields
New(T, a) ==
    CASE T = "endpoint_key"   -> endpoint_key___init__(a[1], a[2], a[3])
      [] T = "endpoint_value" -> endpoint_value___init__(a[1])
      [] T = "endpoint_stats" -> endpoint_stats___init__(a[1], a[2])

----------------------------------------------------------------------------
(* The codec specification: one value is followed from its creation        *)
(* through pack / unpack calls, each result optionally handed to the next  *)
(* call.                                                                   *)

Init ==
    /\ arg = None
    /\ other = None
    /\ origin = None
    /\ op = "start"
    /\ cls = "none"
    /\ ret = NoCall
    /\ packer = NoCursor
    /\ unpacker = NoCursor
    /\ store = <<>>
    /\ memo = <<>>

\* the caller builds a record: T(a1, .., an), omitted arguments being None
Construct ==
    /\ op = "start"
    /\ \E T \in StructTypes : \E a \in [1..Len(Fields(T)) -> CtorArgs] :
          /\ arg' = New(T, a)
          /\ origin' = Tuple(a)
          /\ cls' = T
    /\ op' = "init"
    /\ UNCHANGED <<other, ret, packer, unpacker, store, memo>>

\* the caller obtains a byte string from the transport
Receive ==
    /\ op = "start"
    /\ \E b \in Buffers : arg' = Str(b)
    /\ op' = "recv"
    /\ UNCHANGED <<other, origin, cls, ret, packer, unpacker, store, memo>>

\* arg.pack()
Pack ==
    /\ arg.type \in StructTypes
    /\ LET r == XDRStruct_pack(arg)
       IN  /\ packer' = r.packer
           /\ ret' = r.ret
    /\ unpacker' = NoCursor
    /\ op' = "pack"
    /\ cls' = arg.type
    /\ UNCHANGED <<arg, other, origin, store, memo>>

\* T.unpack(arg)
Unpack(T) ==
    /\ arg.type = "str"
    /\ LET r == XDRStruct_unpack(T, arg)
       IN  /\ unpacker' = r.u
           /\ ret' = r.ret
    /\ packer' = NoCursor
    /\ op' = "unpack"
    /\ cls' = T
    /\ UNCHANGED <<arg, other, origin, store, memo>>

\* the caller passes the value a call returned on to the next call
Feed ==
    /\ op \in {"pack", "unpack", "enum_pack", "enum_unpack"}
    /\ ret.kind = "return"
    /\ origin' = arg
    /\ arg' = ret.val
    /\ op' = "feed"
    /\ ret' = NoCall
    /\ packer' = NoCursor
    /\ unpacker' = NoCursor
    /\ UNCHANGED <<other, cls, store, memo>>

Next ==
    \/ Construct
    \/ Receive
    \/ Pack
    \/ \E T \in StructTypes : Unpack(T)
    \/ Feed

Spec == Init /\ [][Next]_vars

----------------------------------------------------------------------------
(* Properties of the record codec, checked under Spec *)

FixedLen(T) == 4 * Len(Fields(T))

AllUInt32(r) ==
    \A i \in 1..Len(Fields(r.type)) : IsUInt32(r[Fields(r.type)[i]])

\* C1: for a record v of any of the three types whose fields are unsigned
\* 32-bit values, v.pack() succeeds, and type(v).unpack(v.pack()) succeeds
\* and returns a record r with r == v.
C1_RoundTrip ==
    /\ (op = "pack" /\ AllUInt32(arg)) => ret.kind = "return"
    /\ (op = "unpack" /\ origin.type \in StructTypes /\ cls = origin.type
            /\ AllUInt32(origin))
         => /\ ret.kind = "return"
            /\ XDRStruct___eq__(ret.val, origin) = Return(PyBool(TRUE))
            /\ XDRStruct___ne__(ret.val, origin) = Return(PyBool(FALSE))

C1_Witness ==
    /\ op = "unpack"
    /\ origin = endpoint_key___init__(PyInt(0, 0), PyInt(65535, 65535), PyInt(0, 100))
    /\ cls = "endpoint_key"
    /\ ret.kind = "return"

\* C2: a byte string b of exactly the record's fixed length unpacks without
\* error, and packing the record it yields gives back b byte for byte.
C2_BytesRoundTrip ==
    /\ (op = "unpack" /\ Len(arg.b) = FixedLen(cls)) => ret.kind = "return"
    /\ (op = "pack" /\ origin.type = "str" /\ Len(origin.b) = FixedLen(cls))
         => ret = Return(Str(origin.b))

C2_Witness ==
    /\ op = "pack"
    /\ cls = "endpoint_value"
    /\ origin = Str(<<255, 0, 0, 0>>)
    /\ ret.kind = "return"

\* C3: pack(v) is, field after field in declaration order, the 4-byte
\* big-endian encoding of the field and nothing else, so it is 12, 4 or 8
\* bytes long; endpoint_key(100, 0x0A0B0C0D, 0x0E0F1011) packs to
\* 00000064 0A0B0C0D 0E0F1011.
C3_WireFormat ==
    (op = "pack" /\ AllUInt32(arg)) =>
        /\ ret.kind = "return"
        /\ Len(ret.val.b) = FixedLen(arg.type)
        /\ (arg.type = "endpoint_key" => Len(ret.val.b) = 12)
        /\ (arg.type = "endpoint_value" => Len(ret.val.b) = 4)
        /\ (arg.type = "endpoint_stats" => Len(ret.val.b) = 8)
        /\ \A i \in 1..Len(Fields(arg.type)) :
              LET x == arg[Fields(arg.type)[i]]
                  w == SubSeq(ret.val.b, 4 * i - 3, 4 * i)
              IN  /\ \A k \in 1..4 : w[k] \in 0..255
                  /\ w[1] * 256 + w[2] = x.hi
                  /\ w[3] * 256 + w[4] = x.lo
        /\ (arg = endpoint_key___init__(PyInt(0, 100), PyInt(2571, 3085), PyInt(3599, 4113))
              => ret.val.b = <<0, 0, 0, 100, 10, 11, 12, 13, 14, 15, 16, 17>>)

C3_Witness ==
    /\ op = "pack"
    /\ arg = endpoint_key___init__(PyInt(0, 100), PyInt(2571, 3085), PyInt(3599, 4113))
    /\ ret.kind = "return"
    /\ Len(ret.val.b) = 12

\* C4: unpacking a byte string shorter than the record's fixed length raises
\* EOFError (the truncated-input error) and returns nothing: no record, and
\* no partly filled record, reaches the caller.
C4_Truncated ==
    (op = "unpack" /\ Len(arg.b) < FixedLen(cls)) =>
        /\ ret = Raise("EOFError")
        /\ "val" \notin DOMAIN ret

C4_Witness ==
    /\ op = "unpack"
    /\ cls = "endpoint_key"
    /\ Len(arg.b) = 8
    /\ ret.kind = "raise"

\* C6 as stated: every record that was constructed or decoded has every
\* declared field present (not None).
C6_AlwaysPopulated ==
    /\ (op = "init") => \A i \in 1..Len(Fields(arg.type)) : arg[Fields(arg.type)[i]] # None
    /\ (op = "unpack" /\ ret.kind = "return")
         => \A i \in 1..Len(Fields(cls)) : ret.val[Fields(cls)[i]] # None

\* C6 as amended: every decoded record has every declared field present, an
\* unsigned 32-bit integer, and a failed decode returns no record; a
\* constructed record holds exactly the arguments given, None for each
\* argument left out, so it may have absent fields.
C6_DecodedPopulated ==
    /\ (op = "unpack" /\ ret.kind = "return")
         => /\ ret.val.type = cls
            /\ AllUInt32(ret.val)
    /\ (op = "unpack" /\ ret.kind # "return") => "val" \notin DOMAIN ret
    /\ (op = "init")
         => \A i \in 1..Len(Fields(cls)) : arg[Fields(cls)[i]] = origin.items[i]

C6_Witness ==
    /\ op = "unpack"
    /\ cls = "endpoint_stats"
    /\ Len(arg.b) = 8
    /\ ret.kind = "return"

\* C9: a byte string with bytes after the record's fixed length unpacks
\* without error to the record its first 4 x (field count) bytes unpack to;
\* the cursor stops after those bytes and the rest is never read.
C9_TrailingIgnored ==
    (op = "unpack" /\ Len(arg.b) > FixedLen(cls)) =>
        LET b == Str(SubSeq(arg.b, 1, FixedLen(cls)))
        IN  /\ ret.kind = "return"
            /\ XDRStruct_unpack(cls, b).ret.kind = "return"
            /\ XDRStruct___eq__(ret.val, XDRStruct_unpack(cls, b).ret.val) = Return(PyBool(TRUE))
            /\ unpacker.pos = FixedLen(cls)

C9_Witness ==
    /\ op = "unpack"
    /\ cls = "endpoint_stats"
    /\ Len(arg.b) = 9
    /\ ret.kind = "return"

----------------------------------------------------------------------------
(* The comparison specification: a record or union member is compared with *)
(* another value by == or !=.                                              *)

Records ==
    UNION {{New(T, a) : a \in [1..Len(Fields(T)) -> CtorArgs]} : T \in StructTypes}

\* payloads a union member may wrap
Payloads ==
    {None, PyInt(0, 0), PyInt(0, 100), PyInt(65535, 65535),
     endpoint_value___init__(PyInt(0, 100)), endpoint_value___init__(None)}

Members == {XDRUnionMember___init__(T, v) : T \in MemberTypes, v \in Payloads}

\* the caller picks the left operand
TakeSelf ==
    /\ op = "start"
    /\ arg' \in Records \cup Members
    /\ op' = "self"
    /\ UNCHANGED <<other, origin, cls, ret, packer, unpacker, store, memo>>

\* the caller picks the right operand: a record, a member, an int or None
TakeOther ==
    /\ op = "self"
    /\ other' \in Records \cup Members \cup CtorArgs
    /\ op' = "other"
    /\ UNCHANGED <<arg, origin, cls, ret, packer, unpacker, store, memo>>

\* arg == other
Eq ==
    /\ op \in {"other", "eq", "ne"}
    /\ ret' = IF arg.type \in StructTypes
              THEN XDRStruct___eq__(arg, other)
              ELSE XDRUnionMember___eq__(arg, other)
    /\ op' = "eq"
    /\ UNCHANGED <<arg, other, origin, cls, packer, unpacker, store, memo>>

\* arg != other
Ne ==
    /\ op \in {"other", "eq", "ne"}
    /\ ret' = IF arg.type \in StructTypes
              THEN XDRStruct___ne__(arg, other)
              ELSE XDRUnionMember___ne__(arg, other)
    /\ op' = "ne"
    /\ UNCHANGED <<arg, other, origin, cls, packer, unpacker, store, memo>>

NextCmp == TakeSelf \/ TakeOther \/ Eq \/ Ne

SpecCmp == Init /\ [][NextCmp]_vars

\* every declared field of record a equals the same field of b
SameFields(a, b) ==
    \A i \in 1..Len(Fields(a.type)) : a[Fields(a.type)[i]] = b[Fields(a.type)[i]]

\* C5: for records a and b of the three types, a == b returns True exactly
\* when they have the same type and every field of a equals that field of b;
\* records of different types are never equal, whatever their fields; a != b
\* returns the negation of a == b; neither comparison raises.
C5_StructEquality ==
    (arg.type \in StructTypes /\ other.type \in StructTypes) =>
        /\ (op = "eq") =>
              /\ ret.kind = "return"
              /\ ret.val.v <=> (arg.type = other.type /\ SameFields(arg, other))
              /\ (arg.type # other.type) => ret.val.v = FALSE
        /\ (op = "ne") =>
              /\ ret.kind = "return"
              /\ XDRStruct___eq__(arg, other).kind = "return"
              /\ ret.val.v = ~ XDRStruct___eq__(arg, other).val.v
              /\ ret.val.v <=> ~ (arg.type = other.type /\ SameFields(arg, other))

C5_Witness ==
    /\ op = "ne"
    /\ arg = endpoint_key___init__(PyInt(0, 100), PyInt(0, 100), PyInt(0, 100))
    /\ other = endpoint_value___init__(PyInt(0, 100))
    /\ ret = Return(PyBool(TRUE))

\* C8: for union members a and b, a == b returns True exactly when they have
\* the same member type and equal payloads; a != b returns the negation; a
\* member compared with a member of another shape, or with a value that is
\* no member at all, is reported unequal and nothing is raised.
C8_MemberEquality ==
    (arg.type \in MemberTypes) =>
        /\ (op = "eq") =>
              /\ ret.kind = "return"
              /\ ret.val.v <=> (other.type = arg.type /\ other.value = arg.value)
        /\ (op = "ne") =>
              /\ ret.kind = "return"
              /\ ret.val.v <=> ~ (other.type = arg.type /\ other.value = arg.value)

C8_Witness ==
    /\ op = "eq"
    /\ arg = XDRUnionMember___init__("member_a", PyInt(0, 100))
    /\ other = endpoint_value___init__(PyInt(0, 100))
    /\ ret = Return(PyBool(FALSE))

----------------------------------------------------------------------------
(* XDREnum, with an enumerated type of five members as its subclass *)

\* -2^31, -1, 0, 1 and 2^31-1
EnumMembers ==
    {XDREnum___init__("MIN", PyInt(0 - 32768, 0)),
     XDREnum___init__("NEG", PyInt(0 - 1, 65535)),
     XDREnum___init__("ZERO", PyInt(0, 0)),
     XDREnum___init__("ONE", PyInt(0, 1)),
     XDREnum___init__("MAX", PyInt(32767, 65535))}

\* cls.members: the registry, from integer value to member
members ==
    [v \in {m.value : m \in EnumMembers} |-> CHOOSE m \in EnumMembers : m.value = v]

\* integers handed to pack_into in place of a member
EnumInts == {PyInt(0, 1), PyInt(0, 7), PyInt(0 - 1, 65535)}

\* variant: the value is read with unpack_uint (unsigned) instead of unpack_int
XDREnum_unpack_from_unsigned(reader) ==
    LET r == unpack_uint(reader)
    IN  IF r.u.exc # NoExc THEN [u |-> r.u, ret |-> Raise(r.u.exc)]
        ELSE IF r.x \in DOMAIN members THEN [u |-> r.u, ret |-> Return(members[r.x])]
        ELSE [u |-> r.u, ret |-> Raise("KeyError")]

\* value = reader.unpack_int(); return cls.members[value]
XDREnum_unpack_from(reader) ==
    LET r == unpack_int(reader)
    IN  IF r.u.exc # NoExc THEN [u |-> r.u, ret |-> Raise(r.u.exc)]
        ELSE IF r.x \in DOMAIN members THEN [u |-> r.u, ret |-> Return(members[r.x])]
        ELSE [u |-> r.u, ret |-> Raise("KeyError")]

\* packer.pack_int(value)
XDREnum_pack_into(p, value) == pack_int(p, value)

\* the caller picks a member, or a plain integer, to encode
EnumTake ==
    /\ op = "start"
    /\ arg' \in EnumMembers \cup EnumInts
    /\ op' = "take"
    /\ UNCHANGED <<other, origin, cls, ret, packer, unpacker, store, memo>>

\* p = xdrlib.Packer(); XDREnum.pack_into(p, arg); p.get_buffer()
EnumPack ==
    /\ arg.type \in {"XDREnum", "int"}
    /\ LET p == XDREnum_pack_into(Packer, arg)
       IN  /\ packer' = p
           /\ ret' = IF p.exc # NoExc THEN Raise(p.exc) ELSE Return(get_buffer(p))
    /\ unpacker' = NoCursor
    /\ op' = "enum_pack"
    /\ cls' = "XDREnum"
    /\ UNCHANGED <<arg, other, origin, store, memo>>

\* XDREnum.unpack_from(xdrlib.Unpacker(arg))
EnumUnpack ==
    /\ arg.type = "str"
    /\ LET r == XDREnum_unpack_from(Unpacker(arg))
       IN  /\ unpacker' = r.u
           /\ ret' = r.ret
    /\ packer' = NoCursor
    /\ op' = "enum_unpack"
    /\ cls' = "XDREnum"
    /\ UNCHANGED <<arg, other, origin, store, memo>>

NextEnum == EnumTake \/ Receive \/ EnumPack \/ EnumUnpack \/ Feed

SpecEnum == Init /\ [][NextEnum]_vars

\* C7: encoding a member of the registry gives 4 bytes, and decoding them
\* returns the member with the same integer value and the same name; decoding
\* 4 bytes whose (signed, big-endian) value has no member raises KeyError and
\* returns no member.
C7_EnumRoundTrip ==
    /\ (op = "enum_pack" /\ arg \in EnumMembers)
         => (ret.kind = "return" /\ Len(ret.val.b) = 4)
    /\ (op = "enum_unpack" /\ origin \in EnumMembers)
         => /\ ret.kind = "return"
            /\ ret.val.value = origin.value
            /\ ret.val.name = origin.name
    /\ (op = "enum_unpack" /\ Len(arg.b) >= 4
            /\ \A m \in EnumMembers : m.value # struct_unpack_l(SubSeq(arg.b, 1, 4)))
         => /\ ret = Raise("KeyError")
            /\ "val" \notin DOMAIN ret

C7_Witness ==
    /\ op = "enum_unpack"
    /\ origin = XDREnum___init__("NEG", PyInt(0 - 1, 65535))
    /\ arg = Str(<<255, 255, 255, 255>>)
    /\ ret.kind = "return"

----------------------------------------------------------------------------
(* The call-history specification: several values are held at once and     *)
(* pack / unpack calls on them are interleaved in any order; memo keeps,   *)
(* for each held value, the first call made on it.                         *)

CallValues ==
    {endpoint_key___init__(PyInt(0, 100), PyInt(2571, 3085), PyInt(3599, 4113)),
     endpoint_key___init__(None, None, None),
     endpoint_value___init__(PyInt(65535, 65535)),
     endpoint_stats___init__(PyInt(0, 0), None),
     Str(<<>>),
     Str(<<0, 0, 255>>),
     Str(<<0, 0, 0, 100, 255, 255, 255, 255>>),
     Str(<<0, 0, 0, 100, 10, 11, 12, 13, 14, 15, 16, 17, 255>>)}

Slots == 1..NumSlots

InitCalls ==
    /\ arg = None
    /\ other = None
    /\ origin = None
    /\ op = "start"
    /\ cls = "none"
    /\ ret = NoCall
    /\ packer = NoCursor
    /\ unpacker = NoCursor
    /\ store \in [Slots -> CallValues]
    /\ memo = [s \in Slots |-> NoCall]

\* what memo keeps of a call on slot s
Remember(s, T, r) ==
    IF memo[s] = NoCall
    THEN [memo EXCEPT ![s] = [kind |-> "call", cls |-> T, arg |-> store[s],
                              ret |-> r, again |-> FALSE]]
    ELSE IF memo[s].cls = T THEN [memo EXCEPT ![s].again = TRUE]
    ELSE memo

\* store[s].pack()
CallPack(s) ==
    /\ store[s].type \in StructTypes
    /\ LET r == XDRStruct_pack(store[s])
       IN  /\ packer' = r.packer
           /\ ret' = r.ret
           /\ memo' = Remember(s, store[s].type, r.ret)
    /\ unpacker' = NoCursor
    /\ op' = "pack"
    /\ cls' = store[s].type
    /\ arg' = store[s]
    /\ UNCHANGED <<other, origin, store>>

\* T.unpack(store[s])
CallUnpack(s, T) ==
    /\ store[s].type = "str"
    /\ LET r == XDRStruct_unpack(T, store[s])
       IN  /\ unpacker' = r.u
           /\ ret' = r.ret
           /\ memo' = Remember(s, T, r.ret)
    /\ packer' = NoCursor
    /\ op' = "unpack"
    /\ cls' = T
    /\ arg' = store[s]
    /\ UNCHANGED <<other, origin, store>>

NextCalls ==
    \/ \E s \in Slots : CallPack(s)
    \/ \E s \in Slots : \E T \in StructTypes : CallUnpack(s, T)

SpecCalls == InitCalls /\ [][NextCalls]_vars

\* C10: whatever calls were made before, failed ones included: a value that
\* was passed to a call is still what it was; a call returns what the first
\* call of the same kind on the same value returned; pack's cursor holds this
\* call's output and nothing else, and unpack's cursor is over this call's
\* input and has moved from 0 by 4 bytes per field read.
C10_CallsIndependent ==
    /\ \A s \in Slots : memo[s].kind = "call" => store[s] = memo[s].arg
    /\ \A s \in Slots :
          (memo[s].kind = "call" /\ op \in {"pack", "unpack"}
              /\ arg = store[s] /\ cls = memo[s].cls) => ret = memo[s].ret
    /\ (op = "pack" /\ ret.kind = "return")
          => (packer.buf = ret.val.b /\ Len(packer.buf) = FixedLen(cls))
    /\ (op = "pack" /\ ret.kind = "raise") => Len(packer.buf) < FixedLen(cls)
    /\ (op = "unpack")
          => /\ unpacker.buf = arg.b
             /\ unpacker.pos \in {4 * i : i \in 1..Len(Fields(cls))}
             /\ (ret.kind = "return" => unpacker.pos = FixedLen(cls))

C10_Witness ==
    \E s \in Slots : \E t \in Slots :
        /\ store[s] # store[t]
        /\ memo[s].kind = "call" /\ memo[s].again /\ memo[s].ret.kind = "return"
        /\ memo[t].kind = "call" /\ memo[t].ret.kind = "raise"
        /\ op = "pack" /\ arg = store[s] /\ ret.kind = "return"

====
